---- MODULE Spec2Model ----
(***************************************************************************)
(* The booking confirmation hand-off of flaskpawfectfind:                  *)
(*   producer  src/flask_app.py       create_booking, send_booking_to_queue *)
(*   consumer  src/queue_consumer.py  main, receive_messages,               *)
(*                                    process_booking_message               *)
(* The database (table bookings) and the Service Bus queue booking-queue   *)
(* are the only state the two processes share.  Every library call that    *)
(* the code wraps in try/except may return or raise.                       *)
(***************************************************************************)
EXTENDS Integers, Sequences, FiniteSets, TLC

\* ------------------------------------------------------------------ bounds
MaxRequests == 2        \* create_booking requests in one run
MaxRows == 2            \* rows of a database the status update is tried on
MaxApply == 3           \* runs of process_booking_message for one booking id

Requests == 1..MaxRequests
Consumers == {"c1"}

\* ------------------------------------------------------------------ state
VARIABLES
    rows,      \* committed rows of table bookings: id -> row
    nextId,    \* next IDENTITY(1,1) value of bookings.id
    queue,     \* booking-queue: message key -> every message ever sent, with
               \* its broker state (the queue promises no order)
    pc,        \* create_booking: position of each request
    data,      \* create_booking: request.get_json()
    txn,       \* create_booking: the INSERT not yet committed on its connection
    bid,       \* create_booking: local booking_id (0: not assigned)
    resp,      \* create_booking: the response returned
    sends,     \* create_booking: calls of send_booking_to_queue made
    perr,      \* create_booking: the call that raised ("none": none)
    pconn,     \* create_booking: conn is open (opened and close() not called)
    cpc,       \* consumer: position in main / receive_messages
    cmsg,      \* consumer: key in queue of msg (0: none)
    cdel,      \* consumer: what happened so far to the delivery of msg
    cwait,     \* consumer: seconds of the blocking call it is in (0: none)
    sigint,    \* consumer: KeyboardInterrupt has been raised in main
    idb,       \* redelivery of one message: the bookings table
    iid,       \* redelivery of one message: booking_data['booking_id']
    iapplied,  \* redelivery of one message: runs that returned True so far
    idb0,      \* redelivery of one message: the table before the first run
    dc         \* the broker: delivery count of each message

pvars == <<pc, data, txn, bid, resp, sends, perr, pconn>>
cvars == <<cpc, cmsg, cdel, cwait, sigint>>
ivars == <<idb, iid, iapplied, idb0>>
lvars == <<dc>>
vars == <<rows, nextId, queue, pc, data, txn, bid, resp, sends, perr, pconn,
          cpc, cmsg, cdel, cwait, sigint, idb, iid, iapplied, idb0, dc>>

\* ----------------------------------------------------------- serialisation
\* json.dumps of a dict: a JSON text holding an object.
Dumps(d) == [kind |-> "object", val |-> d]

\* json.loads succeeds on every JSON text and raises on anything else.
LoadsRaises(body) == body.kind = "text"
Loads(body) == body.val
IsDict(body) == body.kind = "object"
HasBookingId(body) == IsDict(body) /\ "booking_id" \in DOMAIN body.val

\* ---------------------------------------------------------------- database
\* INSERT INTO bookings (...) VALUES (?, ?, ?, ?, ?, ?, 'confirmed')
InsertedRow(user_id, d) ==
    [user_id |-> user_id, pet_id |-> d.pet_id, service_type |-> d.service_type,
     vendor_id |-> d.vendor_id, booking_date |-> d.booking_date,
     booking_time |-> d.booking_time, status |-> "confirmed"]

\* Mutant of UpdateConfirmed: the UPDATE flips the status of the row.
UpdateConfirmed_Toggles(db, id) ==
    [i \in DOMAIN db |->
        IF i = id
        THEN [db[i] EXCEPT !.status =
                IF @ = "confirmed" THEN "pending" ELSE "confirmed"]
        ELSE db[i]]

\* Mutant of UpdateConfirmed: an UPDATE that matches no row creates one.
UpdateConfirmed_Upserts(db, id) ==
    [i \in DOMAIN db \cup {id} |->
        IF i = id THEN [status |-> "confirmed"] ELSE db[i]]

\* Mutant of UpdateConfirmed: the UPDATE has no WHERE clause.
UpdateConfirmed_AllRows(db, id) ==
    [i \in DOMAIN db |-> [db[i] EXCEPT !.status = "confirmed"]]

\* UPDATE bookings SET status = 'confirmed' WHERE id = ?
UpdateConfirmed(db, id) ==
    [i \in DOMAIN db |->
        IF i = id THEN [db[i] EXCEPT !.status = "confirmed"] ELSE db[i]]

\* ------------------------------------------------------------------- queue
\* A message as the broker holds it: who sent it, its body, its state
\* (active: deliverable, locked: delivered and not settled, completed:
\* removed) and whether it waits for a redelivery.
Message(by, body) ==
    [by |-> by, body |-> body, st |-> "active", returned |-> FALSE]

\* Releasing a locked message puts it back on the queue for redelivery.
Released(m) == [m EXCEPT !.st = "active", !.returned = TRUE]

\* The broker hands a deliverable message to a receiver under a lock.
Locked(m) == [m EXCEPT !.st = "locked", !.returned = FALSE]

\* The key of the message sent by request p, and of a message of another
\* sender (one such message in a run).
MsgOf(p) == p
ForeignKey == MaxRequests + 1

\* ---------------------------------------------------------------- requests
RequiredFields ==
    {"pet_id", "service_type", "vendor_id", "booking_date", "booking_time"}

\* request.get_json() of a body that is the JSON null: None
JsonNull == [json_null |-> TRUE]

Payload(k) ==
    IF k = "full"
    THEN [pet_id |-> 1, service_type |-> "Grooming", vendor_id |-> "paws",
          booking_date |-> "2024-06-01", booking_time |-> "10:00 AM"]
    ELSE IF k = "partial"
    THEN [pet_id |-> 1, service_type |-> "Grooming",
          booking_date |-> "2024-06-01", booking_time |-> "10:00 AM"]
    ELSE JsonNull

PayloadKinds == {"full", "partial", "null"}

\* `field not in data` raises TypeError when data is None
InRaises(d) == d = JsonNull

NoData == [none |-> TRUE]
NoTxn == [id |-> 0]
NoResp == [code |-> 0]

\* booking_data of create_booking
BookingData(id, user_id, d) ==
    [booking_id |-> id, user_id |-> user_id, service_type |-> d.service_type,
     vendor_id |-> d.vendor_id, booking_date |-> d.booking_date,
     booking_time |-> d.booking_time, status |-> "confirmed"]

\* ------------------------------------------------------------------- Init
\* connOpen: the conn of process_booking_message is open (opened and close()
\* not called)
NoDelivery ==
    [fault |-> "none", committed |-> FALSE, completeCalled |-> FALSE,
     connOpen |-> FALSE]

\* every key a message of booking-queue can have
Keys == Requests \cup {ForeignKey}

\* an empty table and queue, no request made yet
StoreInit ==
    /\ rows = <<>>
    /\ nextId = 1
    /\ queue = <<>>
    /\ pc = [p \in Requests |-> "idle"]
    /\ data = [p \in Requests |-> NoData]
    /\ txn = [p \in Requests |-> NoTxn]
    /\ bid = [p \in Requests |-> 0]
    /\ resp = [p \in Requests |-> NoResp]
    /\ sends = [p \in Requests |-> 0]
    /\ perr = [p \in Requests |-> "none"]
    /\ pconn = [p \in Requests |-> FALSE]
    /\ dc = [i \in Keys |-> 0]

\* the consumer processes of C, each entering main
ConsumersInit(C) ==
    /\ cpc = [c \in C |-> "connect"]
    /\ cmsg = [c \in C |-> 0]
    /\ cdel = [c \in C |-> NoDelivery]
    /\ cwait = [c \in C |-> 0]
    /\ sigint = [c \in C |-> FALSE]

HandOffInit ==
    /\ StoreInit
    /\ ConsumersInit(Consumers)

Init ==
    /\ HandOffInit
    /\ idb = <<>>
    /\ iid = 0
    /\ iapplied = 0
    /\ idb0 = <<>>

\* ------------------------------------------------ producer: create_booking
\* except Exception as e: return jsonify({'error': str(e)}), 500
Fail500(p, what) ==
    /\ pc' = [pc EXCEPT ![p] = "done"]
    /\ resp' = [resp EXCEPT ![p] = [code |-> 500, error |-> what]]
    /\ perr' = [perr EXCEPT ![p] = what]
    /\ txn' = [txn EXCEPT ![p] = NoTxn]

\* request.get_json() and the required-fields loop
CB_Validate(p) ==
    /\ pc[p] = "idle"
    /\ \E k \in PayloadKinds :
        /\ data' = [data EXCEPT ![p] = Payload(k)]
        /\ IF InRaises(Payload(k))
           THEN Fail500(p, "validate")
           ELSE IF RequiredFields \subseteq DOMAIN Payload(k)
           THEN /\ pc' = [pc EXCEPT ![p] = "connect"]
                /\ resp' = resp
                /\ UNCHANGED <<txn, perr>>
           ELSE /\ pc' = [pc EXCEPT ![p] = "done"]
                /\ resp' = [resp EXCEPT ![p] =
                             [code |-> 400, error |-> "Missing required field"]]
                /\ UNCHANGED <<txn, perr>>
    /\ UNCHANGED <<rows, nextId, queue, bid, sends>>
    /\ UNCHANGED pconn
    /\ UNCHANGED cvars
    /\ UNCHANGED ivars
    /\ UNCHANGED lvars

\* conn = get_db_connection(); cursor = conn.cursor()
CB_Connect(p) ==
    /\ pc[p] = "connect"
    /\ \/ /\ pc' = [pc EXCEPT ![p] = "insert"]
          /\ pconn' = [pconn EXCEPT ![p] = TRUE]
          /\ UNCHANGED <<resp, perr, txn>>
       \/ /\ Fail500(p, "connect")
          /\ UNCHANGED pconn
    /\ UNCHANGED <<rows, nextId, queue, data, bid, sends>>
    /\ UNCHANGED cvars
    /\ UNCHANGED ivars
    /\ UNCHANGED lvars

\* cursor.execute("INSERT INTO bookings ..."), with user_id = get_jwt_identity():
\* each request is made by its own user, so user_id tells whose row it is
CB_Insert(p) ==
    /\ pc[p] = "insert"
    /\ \/ /\ pc' = [pc EXCEPT ![p] = "fetch"]
          /\ txn' = [txn EXCEPT ![p] =
                       [id |-> nextId, row |-> InsertedRow(p, data[p])]]
          /\ nextId' = nextId + 1
          /\ UNCHANGED <<resp, perr>>
       \/ /\ Fail500(p, "insert")
          /\ nextId' = nextId
    /\ UNCHANGED <<rows, queue, data, bid, sends>>
    /\ UNCHANGED pconn
    /\ UNCHANGED cvars
    /\ UNCHANGED ivars
    /\ UNCHANGED lvars

\* Mutant of CB_FetchIdentity: the id is read as the latest identity value
\* of the table (IDENT_CURRENT), whichever request inserted it.
CB_FetchIdentity_LatestOfTable(p) ==
    /\ pc[p] = "fetch"
    /\ \/ /\ pc' = [pc EXCEPT ![p] = "commit"]
          /\ bid' = [bid EXCEPT ![p] = nextId - 1]
          /\ UNCHANGED <<resp, perr, txn>>
       \/ /\ Fail500(p, "fetch")
          /\ bid' = bid
    /\ UNCHANGED <<rows, nextId, queue, data, sends>>
    /\ UNCHANGED pconn
    /\ UNCHANGED cvars
    /\ UNCHANGED ivars
    /\ UNCHANGED lvars

\* booking_id = cursor.fetchval("SELECT SCOPE_IDENTITY()")
CB_FetchIdentity(p) ==
    /\ pc[p] = "fetch"
    /\ \/ /\ pc' = [pc EXCEPT ![p] = "commit"]
          /\ bid' = [bid EXCEPT ![p] = txn[p].id]
          /\ UNCHANGED <<resp, perr, txn>>
       \/ /\ Fail500(p, "fetch")
          /\ bid' = bid
    /\ UNCHANGED <<rows, nextId, queue, data, sends>>
    /\ UNCHANGED pconn
    /\ UNCHANGED cvars
    /\ UNCHANGED ivars
    /\ UNCHANGED lvars

\* Mutant of CB_Commit: a failed commit is swallowed and the request goes on
\* to publish.
CB_Commit_PublishesAnyway(p) ==
    /\ pc[p] = "commit"
    /\ pc' = [pc EXCEPT ![p] = "send"]
    /\ txn' = [txn EXCEPT ![p] = NoTxn]
    /\ \/ rows' = rows @@ (txn[p].id :> txn[p].row)
       \/ rows' = rows
    /\ UNCHANGED <<resp, perr>>
    /\ UNCHANGED <<nextId, queue, data, bid, sends>>
    /\ UNCHANGED pconn
    /\ UNCHANGED cvars
    /\ UNCHANGED ivars
    /\ UNCHANGED lvars

\* Mutant of CB_Commit: the commit raises after the row was written.
CB_Commit_RaisesAfterWrite(p) ==
    /\ pc[p] = "commit"
    /\ rows' = rows @@ (txn[p].id :> txn[p].row)
    /\ \/ /\ pc' = [pc EXCEPT ![p] = "send"]
          /\ txn' = [txn EXCEPT ![p] = NoTxn]
          /\ UNCHANGED <<resp, perr>>
       \/ Fail500(p, "commit")
    /\ UNCHANGED <<nextId, queue, data, bid, sends>>
    /\ UNCHANGED pconn
    /\ UNCHANGED cvars
    /\ UNCHANGED ivars
    /\ UNCHANGED lvars

\* conn.commit()
CB_Commit(p) ==
    /\ pc[p] = "commit"
    /\ \/ /\ pc' = [pc EXCEPT ![p] = "send"]
          /\ rows' = rows @@ (txn[p].id :> txn[p].row)
          /\ txn' = [txn EXCEPT ![p] = NoTxn]
          /\ UNCHANGED <<resp, perr>>
       \/ /\ Fail500(p, "commit")
          /\ rows' = rows
    /\ UNCHANGED <<nextId, queue, data, bid, sends>>
    /\ UNCHANGED pconn
    /\ UNCHANGED cvars
    /\ UNCHANGED ivars
    /\ UNCHANGED lvars

\* Mutant of CB_Send: a failed publish is reported as a failure of the request.
CB_Send_FailureIs500(p) ==
    /\ pc[p] = "send"
    /\ sends' = [sends EXCEPT ![p] = @ + 1]
    /\ pc' = [pc EXCEPT ![p] = "done"]
    /\ \/ /\ queue' = queue @@ (MsgOf(p) :>
                 Message("create_booking",
                         Dumps(BookingData(bid[p], p, data[p]))))
          /\ resp' = [resp EXCEPT ![p] =
                        [code |-> 201, message |-> "Booking created successfully",
                         booking_id |-> bid[p], status |-> "confirmed"]]
          /\ perr' = perr
       \/ /\ queue' = queue
          /\ resp' = [resp EXCEPT ![p] = [code |-> 500, error |-> "send"]]
          /\ perr' = [perr EXCEPT ![p] = "send"]
    /\ UNCHANGED <<rows, nextId, data, txn, bid>>
    /\ UNCHANGED pconn
    /\ UNCHANGED cvars
    /\ UNCHANGED ivars
    /\ UNCHANGED lvars

\* Mutant of CB_Send: a failed publish is tried again.
CB_Send_Retries(p) ==
    /\ pc[p] = "send"
    /\ sends' = [sends EXCEPT ![p] = @ + 1]
    /\ \/ /\ queue' = queue @@ (MsgOf(p) :>
                 Message("create_booking",
                         Dumps(BookingData(bid[p], p, data[p]))))
          /\ resp' = [resp EXCEPT ![p] =
                        [code |-> 201, message |-> "Booking created successfully",
                         booking_id |-> bid[p], status |-> "confirmed"]]
          /\ pc' = [pc EXCEPT ![p] = "done"]
          /\ perr' = perr
       \/ /\ queue' = queue
          /\ resp' = resp
          /\ pc' = pc
          /\ perr' = [perr EXCEPT ![p] = "send"]
    /\ UNCHANGED <<rows, nextId, data, txn, bid>>
    /\ UNCHANGED pconn
    /\ UNCHANGED cvars
    /\ UNCHANGED ivars
    /\ UNCHANGED lvars

\* send_booking_to_queue(booking_data) and the two 201 returns
CB_Send(p) ==
    /\ pc[p] = "send"
    /\ sends' = [sends EXCEPT ![p] = @ + 1]
    /\ pc' = [pc EXCEPT ![p] = "done"]
    /\ \/ /\ queue' = queue @@ (MsgOf(p) :>
                 Message("create_booking",
                         Dumps(BookingData(bid[p], p, data[p]))))
          /\ resp' = [resp EXCEPT ![p] =
                        [code |-> 201, message |-> "Booking created successfully",
                         booking_id |-> bid[p], status |-> "confirmed"]]
          /\ perr' = perr
       \/ /\ queue' = queue
          /\ resp' = [resp EXCEPT ![p] =
                        [code |-> 201,
                         error |-> "Booking created but queue service unavailable"]]
          /\ perr' = [perr EXCEPT ![p] = "send"]
    /\ UNCHANGED <<rows, nextId, data, txn, bid>>
    /\ UNCHANGED pconn
    /\ UNCHANGED cvars
    /\ UNCHANGED ivars
    /\ UNCHANGED lvars

Producer == \E p \in Requests :
    \/ CB_Validate(p)
    \/ CB_Connect(p)
    \/ CB_Insert(p)
    \/ CB_FetchIdentity(p)
    \/ CB_Commit(p)
    \/ CB_Send(p)

\* ------------------------------------------------- other senders to the queue
\* str(msg) of a message that create_booking did not send: not JSON, a JSON
\* array, an object without booking_id, an object naming a row that does
\* not exist (IDENTITY(1,1) never assigns 0).
ForeignKinds == {"text", "array", "nokey", "norow"}

ForeignBody(k) ==
    CASE k = "text"  -> [kind |-> "text", val |-> "garbage"]
      [] k = "array" -> [kind |-> "array", val |-> <<1>>]
      [] k = "nokey" -> [kind |-> "object", val |-> [service_type |-> "Grooming"]]
      [] OTHER       -> [kind |-> "object", val |-> [booking_id |-> 0]]

Foreign_Send ==
    /\ ForeignKey \notin DOMAIN queue
    /\ \E k \in ForeignKinds :
        queue' = queue @@ (ForeignKey :> Message("foreign", ForeignBody(k)))
    /\ UNCHANGED <<rows, nextId>>
    /\ UNCHANGED pvars
    /\ UNCHANGED cvars
    /\ UNCHANGED ivars
    /\ UNCHANGED lvars

\* ------------------------------------------- consumer: receive_messages, main
Body(c) == queue[cmsg[c]].body

\* get_queue_receiver(max_wait_time=30) and time.sleep(10)
max_wait_time == 30
BackoffSeconds == 10

\* the blocking call the consumer is in after the step: the wait for the next
\* message, the sleep of main's handler, or none
Blocks(c) ==
    cwait' = [cwait EXCEPT ![c] =
                IF cpc'[c] = "recv" THEN max_wait_time
                ELSE IF cpc'[c] = "backoff" THEN BackoffSeconds
                ELSE 0]

\* main has left its while loop: through break, or through an exception
\* nothing caught
Exited == {"stopped", "crashed"}

\* Mutant of RaiseInLoop: the exception is logged and the message is
\* completed all the same.
RaiseInLoop_CompletesAnyway(c, what) ==
    /\ cpc' = [cpc EXCEPT ![c] = "complete"]
    /\ cdel' = [cdel EXCEPT ![c].fault = what]

\* an exception of kind `what` is raised inside the per-message try block:
\* control reaches the handler that calls abandon_message
RaiseInLoop(c, what) ==
    /\ cpc' = [cpc EXCEPT ![c] = "abandon"]
    /\ cdel' = [cdel EXCEPT ![c].fault = what]

\* ServiceBusClient.from_connection_string, get_queue_receiver, the two withs
RM_Connect(c) ==
    /\ cpc[c] = "connect"
    /\ \/ cpc' = [cpc EXCEPT ![c] = "recv"]
       \/ cpc' = [cpc EXCEPT ![c] = "backoff"]
    /\ UNCHANGED <<rows, nextId, queue, cmsg, cdel>>
    /\ Blocks(c)
    /\ UNCHANGED sigint
    /\ UNCHANGED pvars
    /\ UNCHANGED ivars
    /\ UNCHANGED lvars

\* for msg in receiver: the broker locks message i and hands it over
Deliver(c, i) ==
    /\ cpc[c] = "recv"
    /\ i \in DOMAIN queue
    /\ queue[i].st = "active"
    /\ queue' = [queue EXCEPT ![i] = Locked(@)]
    /\ cmsg' = [cmsg EXCEPT ![c] = i]
    /\ cpc' = [cpc EXCEPT ![c] = "parse"]
    /\ cdel' = cdel
    /\ UNCHANGED <<rows, nextId>>
    /\ Blocks(c)
    /\ UNCHANGED sigint
    /\ UNCHANGED pvars
    /\ UNCHANGED ivars

\* for msg in receiver, deliveries not counted
RM_Receive(c) ==
    /\ \E i \in Keys : Deliver(c, i)
    /\ UNCHANGED lvars

\* Mutant of RM_Idle: when receive_messages returns after an idle window,
\* main leaves its loop.
RM_Idle_Exits(c) ==
    /\ cpc[c] = "recv"
    /\ \A i \in DOMAIN queue : queue[i].st # "active"
    /\ cpc' = [cpc EXCEPT ![c] = "stopped"]
    /\ Blocks(c)
    /\ UNCHANGED sigint
    /\ UNCHANGED <<rows, nextId, queue, cmsg, cdel>>
    /\ UNCHANGED pvars
    /\ UNCHANGED ivars
    /\ UNCHANGED lvars

\* for msg in receiver: nothing arrives within max_wait_time, the iteration
\* ends, receive_messages returns and main calls it again
RM_Idle(c) ==
    /\ cpc[c] = "recv"
    /\ \A i \in DOMAIN queue : queue[i].st # "active"
    /\ cpc' = [cpc EXCEPT ![c] = "connect"]
    /\ UNCHANGED <<rows, nextId, queue, cmsg, cdel>>
    /\ Blocks(c)
    /\ UNCHANGED sigint
    /\ UNCHANGED pvars
    /\ UNCHANGED ivars
    /\ UNCHANGED lvars

\* for msg in receiver: the iteration raises (connection lost)
RM_ReceiveError(c) ==
    /\ cpc[c] = "recv"
    /\ cpc' = [cpc EXCEPT ![c] = "backoff"]
    /\ UNCHANGED <<rows, nextId, queue, cmsg, cdel>>
    /\ Blocks(c)
    /\ UNCHANGED sigint
    /\ UNCHANGED pvars
    /\ UNCHANGED ivars
    /\ UNCHANGED lvars

\* Mutant of RM_Parse: the handler of a message that cannot be parsed logs
\* and goes on to the next message without calling abandon_message.
RM_Parse_SkipsAbandon(c) ==
    /\ cpc[c] = "parse"
    /\ IF LoadsRaises(Body(c))
       THEN /\ cpc' = [cpc EXCEPT ![c] = "recv"]
            /\ cdel' = cdel
            /\ cmsg' = [cmsg EXCEPT ![c] = 0]
       ELSE /\ cpc' = [cpc EXCEPT ![c] = "process"]
            /\ cdel' = cdel
            /\ cmsg' = cmsg
    /\ UNCHANGED <<rows, nextId, queue>>
    /\ Blocks(c)
    /\ UNCHANGED sigint
    /\ UNCHANGED pvars
    /\ UNCHANGED ivars
    /\ UNCHANGED lvars

\* booking_data = json.loads(str(msg))
RM_Parse(c) ==
    /\ cpc[c] = "parse"
    /\ IF LoadsRaises(Body(c))
       THEN RaiseInLoop(c, "json")
       ELSE /\ cpc' = [cpc EXCEPT ![c] = "process"]
            /\ cdel' = cdel
    /\ UNCHANGED <<rows, nextId, queue, cmsg>>
    /\ Blocks(c)
    /\ UNCHANGED sigint
    /\ UNCHANGED pvars
    /\ UNCHANGED ivars
    /\ UNCHANGED lvars

\* process_booking_message: booking_data.get(...), get_db_connection()
PBM_Connect(c) ==
    /\ cpc[c] = "process"
    /\ IF ~IsDict(Body(c))
       THEN RaiseInLoop(c, "attribute")
       ELSE \/ /\ cpc' = [cpc EXCEPT ![c] = "execute"]
               /\ cdel' = [cdel EXCEPT ![c].connOpen = TRUE]
            \/ RaiseInLoop(c, "db")
    /\ UNCHANGED <<rows, nextId, queue, cmsg>>
    /\ Blocks(c)
    /\ UNCHANGED sigint
    /\ UNCHANGED pvars
    /\ UNCHANGED ivars
    /\ UNCHANGED lvars

\* Mutant of PBM_Execute: the id is read with booking_data.get('booking_id'),
\* so that a missing key gives None and the UPDATE is executed with it.
PBM_Execute_GetsBookingId(c) ==
    /\ cpc[c] = "execute"
    /\ \/ /\ cpc' = [cpc EXCEPT ![c] = "commit"]
          /\ cdel' = cdel
       \/ RaiseInLoop(c, "db")
    /\ UNCHANGED <<rows, nextId, queue, cmsg>>
    /\ Blocks(c)
    /\ UNCHANGED sigint
    /\ UNCHANGED pvars
    /\ UNCHANGED ivars
    /\ UNCHANGED lvars

\* process_booking_message: cursor.execute(UPDATE ..., booking_data['booking_id'])
PBM_Execute(c) ==
    /\ cpc[c] = "execute"
    /\ IF ~HasBookingId(Body(c))
       THEN RaiseInLoop(c, "key")
       ELSE \/ /\ cpc' = [cpc EXCEPT ![c] = "commit"]
               /\ cdel' = cdel
            \/ RaiseInLoop(c, "db")
    /\ UNCHANGED <<rows, nextId, queue, cmsg>>
    /\ Blocks(c)
    /\ UNCHANGED sigint
    /\ UNCHANGED pvars
    /\ UNCHANGED ivars
    /\ UNCHANGED lvars

\* Mutant of PBM_Commit: a commit that raised is not re-raised, and
\* process_booking_message returns as if it had succeeded.
PBM_Commit_HidesFailure(c) ==
    /\ cpc[c] = "commit"
    /\ cpc' = [cpc EXCEPT ![c] = "complete"]
    /\ \/ /\ rows' = UpdateConfirmed(rows, Loads(Body(c)).booking_id)
          /\ cdel' = [cdel EXCEPT ![c].committed = TRUE,
                                  ![c].connOpen = FALSE]
       \/ /\ rows' = rows
          /\ cdel' = cdel
    /\ UNCHANGED <<nextId, queue, cmsg>>
    /\ Blocks(c)
    /\ UNCHANGED sigint
    /\ UNCHANGED pvars
    /\ UNCHANGED ivars
    /\ UNCHANGED lvars

\* process_booking_message: conn.commit(); conn.close(); return True
PBM_Commit(c) ==
    /\ cpc[c] = "commit"
    /\ \/ /\ rows' = UpdateConfirmed(rows, Loads(Body(c)).booking_id)
          /\ cpc' = [cpc EXCEPT ![c] = "complete"]
          /\ cdel' = [cdel EXCEPT ![c].committed = TRUE,
                                  ![c].connOpen = FALSE]
       \/ /\ RaiseInLoop(c, "db")
          /\ rows' = rows
    /\ UNCHANGED <<nextId, queue, cmsg>>
    /\ Blocks(c)
    /\ UNCHANGED sigint
    /\ UNCHANGED pvars
    /\ UNCHANGED ivars
    /\ UNCHANGED lvars

\* Mutant of RM_Complete: an exception of complete_message is swallowed and
\* the loop goes on to the next message.
RM_Complete_SwallowsFailure(c) ==
    /\ cpc[c] = "complete"
    /\ \/ queue' = [queue EXCEPT ![cmsg[c]].st = "completed"]
       \/ queue' = queue
    /\ cpc' = [cpc EXCEPT ![c] = "recv"]
    /\ cdel' = [cdel EXCEPT ![c] = NoDelivery]
    /\ cmsg' = [cmsg EXCEPT ![c] = 0]
    /\ UNCHANGED <<rows, nextId>>
    /\ Blocks(c)
    /\ UNCHANGED sigint
    /\ UNCHANGED pvars
    /\ UNCHANGED ivars
    /\ UNCHANGED lvars

\* receiver.complete_message(msg)
RM_Complete(c) ==
    /\ cpc[c] = "complete"
    /\ \/ /\ queue' = [queue EXCEPT ![cmsg[c]].st = "completed"]
          /\ cpc' = [cpc EXCEPT ![c] = "recv"]
          /\ cdel' = [cdel EXCEPT ![c] = NoDelivery]
          /\ cmsg' = [cmsg EXCEPT ![c] = 0]
       \/ /\ queue' = queue
          /\ cpc' = [cpc EXCEPT ![c] = "abandon"]
          /\ cdel' = [cdel EXCEPT ![c].completeCalled = TRUE,
                                  ![c].fault = "complete"]
          /\ cmsg' = cmsg
    /\ UNCHANGED <<rows, nextId>>
    /\ Blocks(c)
    /\ UNCHANGED sigint
    /\ UNCHANGED pvars
    /\ UNCHANGED ivars
    /\ UNCHANGED lvars

\* Mutant of RM_Abandon: the handler settles the message with
\* complete_message, which removes it from the queue.
RM_Abandon_Drops(c) ==
    /\ cpc[c] = "abandon"
    /\ cdel' = [cdel EXCEPT ![c] = NoDelivery]
    /\ cmsg' = [cmsg EXCEPT ![c] = 0]
    /\ \/ /\ queue' = [queue EXCEPT ![cmsg[c]].st = "completed"]
          /\ cpc' = [cpc EXCEPT ![c] = "recv"]
       \/ /\ queue' = queue
          /\ cpc' = [cpc EXCEPT ![c] = "backoff"]
    /\ UNCHANGED <<rows, nextId>>
    /\ Blocks(c)
    /\ UNCHANGED sigint
    /\ UNCHANGED pvars
    /\ UNCHANGED ivars
    /\ UNCHANGED lvars

\* receiver.abandon_message(msg); when it raises the exception leaves the
\* for loop and receive_messages, and main's handler takes over
RM_Abandon(c) ==
    /\ cpc[c] = "abandon"
    /\ cdel' = [cdel EXCEPT ![c] = NoDelivery]
    /\ cmsg' = [cmsg EXCEPT ![c] = 0]
    /\ \/ /\ queue' = [queue EXCEPT ![cmsg[c]] = Released(@)]
          /\ cpc' = [cpc EXCEPT ![c] = "recv"]
       \/ /\ queue' = queue
          /\ cpc' = [cpc EXCEPT ![c] = "backoff"]
    /\ UNCHANGED <<rows, nextId>>
    /\ Blocks(c)
    /\ UNCHANGED sigint
    /\ UNCHANGED pvars
    /\ UNCHANGED ivars
    /\ UNCHANGED lvars

\* Mutant of Main_Backoff: after a broker failure main logs and returns
\* instead of sleeping and going round its loop.
Main_Backoff_Exits(c) ==
    /\ cpc[c] = "backoff"
    /\ cpc' = [cpc EXCEPT ![c] = "stopped"]
    /\ Blocks(c)
    /\ UNCHANGED sigint
    /\ UNCHANGED <<rows, nextId, queue, cmsg, cdel>>
    /\ UNCHANGED pvars
    /\ UNCHANGED ivars
    /\ UNCHANGED lvars

\* main: except Exception: log, time.sleep(10), next turn of while True
Main_Backoff(c) ==
    /\ cpc[c] = "backoff"
    /\ cpc' = [cpc EXCEPT ![c] = "connect"]
    /\ UNCHANGED <<rows, nextId, queue, cmsg, cdel>>
    /\ Blocks(c)
    /\ UNCHANGED sigint
    /\ UNCHANGED pvars
    /\ UNCHANGED ivars
    /\ UNCHANGED lvars

\* Mutant of Main_KeyboardInterrupt: time.sleep(10) sits inside the try block,
\* so that except KeyboardInterrupt covers it.
Main_KeyboardInterrupt_SleepInTry(c) ==
    /\ cpc[c] \notin Exited
    /\ cpc' = [cpc EXCEPT ![c] = "stopped"]
    /\ sigint' = [sigint EXCEPT ![c] = TRUE]
    /\ cmsg' = [cmsg EXCEPT ![c] = 0]
    /\ cdel' = [cdel EXCEPT ![c] = NoDelivery]
    /\ Blocks(c)
    /\ UNCHANGED <<rows, nextId, queue>>
    /\ UNCHANGED pvars
    /\ UNCHANGED ivars
    /\ UNCHANGED lvars

\* KeyboardInterrupt is raised in main's thread. It is no Exception, so the
\* handlers of process_booking_message and receive_messages let it pass: raised
\* inside receive_messages() it reaches main's except KeyboardInterrupt (log,
\* break); raised inside main's except Exception handler (the logging calls and
\* time.sleep(10)) it is outside the try block and nothing catches it. The
\* message in hand is neither completed nor abandoned and stays locked.
Main_KeyboardInterrupt(c) ==
    /\ cpc[c] \notin Exited
    /\ cpc' = [cpc EXCEPT ![c] = IF cpc[c] = "backoff" THEN "crashed"
                                                       ELSE "stopped"]
    /\ sigint' = [sigint EXCEPT ![c] = TRUE]
    /\ cmsg' = [cmsg EXCEPT ![c] = 0]
    /\ cdel' = [cdel EXCEPT ![c] = NoDelivery]
    /\ Blocks(c)
    /\ UNCHANGED <<rows, nextId, queue>>
    /\ UNCHANGED pvars
    /\ UNCHANGED ivars
    /\ UNCHANGED lvars

\* the broker: the lock of a message no consumer holds any more lapses
Broker_LockExpire ==
    /\ \E i \in DOMAIN queue :
        /\ queue[i].st = "locked"
        /\ \A c \in DOMAIN cmsg : cmsg[c] # i
        /\ queue' = [queue EXCEPT ![i] = Released(@)]
    /\ UNCHANGED <<rows, nextId>>
    /\ UNCHANGED pvars
    /\ UNCHANGED cvars
    /\ UNCHANGED ivars
    /\ UNCHANGED lvars

Consumer == \E c \in Consumers :
    \/ RM_Connect(c)
    \/ RM_Receive(c)
    \/ RM_Idle(c)
    \/ RM_ReceiveError(c)
    \/ RM_Parse(c)
    \/ PBM_Connect(c)
    \/ PBM_Execute(c)
    \/ PBM_Commit(c)
    \/ RM_Complete(c)
    \/ RM_Abandon(c)
    \/ Main_Backoff(c)
    \/ Main_KeyboardInterrupt(c)

Next == Producer \/ Consumer \/ Foreign_Send \/ Broker_LockExpire

Spec == Init /\ [][Next]_vars

\* ------------------------- process_booking_message run again and again
\* The status update on its own: any bookings table, any booking id, and
\* process_booking_message run up to MaxApply times for that id, as under
\* redelivery of one message.
Statuses == {"pending", "confirmed", "cancelled"}

IdemRow(st) == [InsertedRow(1, Payload("full")) EXCEPT !.status = st]

IdemDbs ==
    UNION {[S -> {IdemRow(st) : st \in Statuses}] : S \in SUBSET (1..MaxRows)}

Init_Idem ==
    /\ HandOffInit
    /\ idb0 \in IdemDbs
    /\ idb = idb0
    /\ iid \in 0..MaxRows
    /\ iapplied = 0

\* process_booking_message(booking_data) returns True: the UPDATE is committed
Idem_ProcessReturns ==
    /\ iapplied < MaxApply
    /\ idb' = UpdateConfirmed(idb, iid)
    /\ iapplied' = iapplied + 1
    /\ UNCHANGED <<iid, idb0>>
    /\ UNCHANGED lvars
    /\ UNCHANGED <<rows, nextId, queue>>
    /\ UNCHANGED pvars
    /\ UNCHANGED cvars

\* process_booking_message(booking_data) raises: nothing is committed
Idem_ProcessRaises ==
    /\ iapplied < MaxApply
    /\ UNCHANGED ivars
    /\ UNCHANGED lvars
    /\ UNCHANGED <<rows, nextId, queue>>
    /\ UNCHANGED pvars
    /\ UNCHANGED cvars

Next_Idem == Idem_ProcessReturns \/ Idem_ProcessRaises

SpecIdem == Init_Idem /\ [][Next_Idem]_vars

\* ------------------------------ the queue under a maximum delivery count
\* The broker counts the deliveries of each message and moves a message that
\* has been delivered MaxDeliveryCount times without being completed to the
\* dead-letter queue. One request, one message of another sender, and a
\* consumer that nobody interrupts.
MaxDeliveryCount == 2

LifeRequests == {1}

\* for msg in receiver: the broker hands over a message that has deliveries
\* left, and counts the delivery
Life_Receive(c, i) ==
    /\ dc[i] < MaxDeliveryCount
    /\ Deliver(c, i)
    /\ dc' = [dc EXCEPT ![i] = @ + 1]

\* the broker: a message back on the queue with no delivery left is
\* dead-lettered
Broker_DeadLetter(i) ==
    /\ i \in DOMAIN queue
    /\ queue[i].st = "active"
    /\ dc[i] >= MaxDeliveryCount
    /\ queue' = [queue EXCEPT ![i].st = "deadletter"]
    /\ UNCHANGED <<rows, nextId>>
    /\ UNCHANGED pvars
    /\ UNCHANGED cvars
    /\ UNCHANGED ivars
    /\ UNCHANGED lvars

\* the steps of main and receive_messages other than receiving a message
Running(c) ==
    \/ RM_Connect(c)
    \/ RM_Idle(c)
    \/ RM_ReceiveError(c)
    \/ RM_Parse(c)
    \/ PBM_Connect(c)
    \/ PBM_Execute(c)
    \/ PBM_Commit(c)
    \/ RM_Complete(c)
    \/ RM_Abandon(c)
    \/ Main_Backoff(c)

Life_Producer == \E p \in LifeRequests :
    \/ CB_Validate(p)
    \/ CB_Connect(p)
    \/ CB_Insert(p)
    \/ CB_FetchIdentity(p)
    \/ CB_Commit(p)
    \/ CB_Send(p)

Next_Life ==
    \/ Life_Producer
    \/ Foreign_Send
    \/ \E c \in Consumers : Running(c)
    \/ \E c \in Consumers : \E i \in Keys : Life_Receive(c, i)
    \/ Broker_LockExpire
    \/ \E i \in Keys : Broker_DeadLetter(i)

\* The consumer process keeps running and each of its calls returns; the
\* broker can be reached again and again; a message that is deliverable
\* again and again is delivered; locks lapse and dead-lettering happens.
Fair_Life ==
    /\ \A c \in Consumers :
          /\ WF_vars(Running(c))
          /\ SF_vars(RM_Connect(c) /\ cpc'[c] = "recv")
          /\ \A i \in Keys : SF_vars(Life_Receive(c, i))
    /\ WF_vars(Broker_LockExpire)
    /\ \A i \in Keys : WF_vars(Broker_DeadLetter(i))

SpecLife == Init /\ [][Next_Life]_vars /\ Fair_Life

\* ---------------------------------- two consumers competing on the queue
\* Two processes run queue_consumer.py against the same queue and the same
\* database while create_booking serves two requests; the broker hands a
\* message to one receiver at a time (Deliver takes active messages only).
TwoConsumers == {"c1", "c2"}

MultiRequests == {1, 2}

Init_Multi ==
    /\ StoreInit
    /\ ConsumersInit(TwoConsumers)
    /\ idb = <<>>
    /\ iid = 0
    /\ iapplied = 0
    /\ idb0 = <<>>

Multi_Producer == \E p \in MultiRequests :
    \/ CB_Validate(p)
    \/ CB_Connect(p)
    \/ CB_Insert(p)
    \/ CB_FetchIdentity(p)
    \/ CB_Commit(p)
    \/ CB_Send(p)

Next_Multi ==
    \/ Multi_Producer
    \/ \E c \in TwoConsumers : Running(c) \/ RM_Receive(c)
    \/ Broker_LockExpire

SpecMulti == Init_Multi /\ [][Next_Multi]_vars

\* ================================================================== claims
\* messages create_booking has published, and the booking each one names
Published == {i \in DOMAIN queue : queue[i].by = "create_booking"}
BookingIdOf(i) == Loads(queue[i].body).booking_id

\* the rows a request has committed (its INSERT carries its user_id)
RowsBy(p) == {i \in DOMAIN rows : rows[i].user_id = p}

DbCalls == {"connect", "insert", "fetch", "commit"}

\* C1. Row before publish: every message create_booking has put on
\* booking-queue names, as booking_id, a row that is committed; and a
\* request that is about to call send_booking_to_queue has its row
\* committed already, whatever the other requests are doing.
C1_RowBeforePublish ==
    /\ \A i \in Published :
          /\ HasBookingId(queue[i].body)
          /\ BookingIdOf(i) \in DOMAIN rows
    /\ \A p \in Requests : pc[p] = "send" => bid[p] \in DOMAIN rows

\* C1 witness: two requests have interleaved and both have published.
C1_Witness ==
    /\ Cardinality(Published) = 2
    /\ \A i \in Published : BookingIdOf(i) \in DOMAIN rows

\* C2. When a database call of create_booking raises (connect, INSERT,
\* identity fetch or commit), the request ends with HTTP 500, has never
\* called send_booking_to_queue, has no message on the queue, and has left
\* no committed row and no open insert.
C2_DbFailureNoSideEffect ==
    \A p \in Requests :
        perr[p] \in DbCalls =>
            /\ pc[p] = "done"
            /\ resp[p].code = 500
            /\ sends[p] = 0
            /\ MsgOf(p) \notin DOMAIN queue
            /\ RowsBy(p) = {}
            /\ \A i \in Published : BookingIdOf(i) # bid[p]
            /\ txn[p] = NoTxn

\* C2 witness: a request whose commit raised, after its INSERT and identity
\* fetch had succeeded, while the other request committed its row.
C2_Witness ==
    \E p, q \in Requests :
        /\ perr[p] = "commit" /\ resp[p].code = 500 /\ bid[p] # 0
        /\ RowsBy(q) # {}

\* C3. When the row is committed and send_booking_to_queue fails, the
\* request still answers with a 2xx code, the committed row stays in the
\* table, and the queue holds no message for that booking.
C3_PublishFailureStillSuccess ==
    \A p \in Requests :
        perr[p] = "send" =>
            /\ pc[p] = "done"
            /\ resp[p].code \in 200..299
            /\ bid[p] \in DOMAIN rows
            /\ bid[p] \in RowsBy(p)
            /\ MsgOf(p) \notin DOMAIN queue
            /\ \A i \in Published : BookingIdOf(i) # bid[p]

\* C3 witness: a request whose publish failed after its commit.
C3_Witness ==
    \E p \in Requests : perr[p] = "send" /\ pc[p] = "done" /\ RowsBy(p) # {}

\* C4 (as claimed). After a commit that succeeded and a publish that
\* failed, the row of the booking has status pending.
C4_PendingAfterPublishFailure ==
    \A p \in Requests :
        (perr[p] = "send" /\ bid[p] \in DOMAIN rows) =>
            rows[bid[p]].status = "pending"

\* C5 (as claimed). Every 201 response carries a booking identifier, and
\* that identifier is the id of a committed row whose status is pending or
\* confirmed, on the publish-succeeded and on the publish-failed branch.
C5_SuccessResponseNamesRow ==
    \A p \in Requests :
        resp[p].code = 201 =>
            /\ "booking_id" \in DOMAIN resp[p]
            /\ resp[p].booking_id \in DOMAIN rows
            /\ rows[resp[p].booking_id].status \in {"pending", "confirmed"}

\* C6. A request calls send_booking_to_queue at most once, and never again
\* after a failure; no two published messages name the same booking, and
\* no two requests hold the same booking_id.
C6_AtMostOnePublish ==
    /\ \A p \in Requests :
          /\ sends[p] <= 1
          /\ perr[p] = "send" => (pc[p] = "done" /\ sends[p] = 1)
    /\ \A i, j \in Published : i # j => BookingIdOf(i) # BookingIdOf(j)
    /\ \A p, q \in Requests :
          (p # q /\ bid[p] # 0 /\ bid[q] # 0) => bid[p] # bid[q]

\* C6 witness: one request's only publish failed and was not repeated, the
\* other request's publish succeeded.
C6_Witness ==
    \E p, q \in Requests :
        /\ perr[p] = "send" /\ pc[p] = "done" /\ sends[p] = 1
        /\ MsgOf(q) \in DOMAIN queue /\ sends[q] = 1

\* the faults raised by json.loads or inside process_booking_message
ProcessingFaults == {"json", "attribute", "key", "db"}

\* C7 (as claimed). A delivery whose json.loads or process_booking_message
\* raised is never completed, and the handler's abandon_message puts the
\* message back for redelivery with the loop going on to its next message.
C7_AbandonAlwaysContinues ==
    [][\A c \in Consumers :
        (cpc[c] = "abandon" /\ cdel[c].fault \in ProcessingFaults
            /\ cpc'[c] # "abandon" /\ ~sigint'[c]) =>
            /\ ~cdel[c].completeCalled
            /\ cpc'[c] = "recv"
            /\ queue'[cmsg[c]].st = "active"]_vars

\* C7 (amended). When json.loads or process_booking_message raises for a
\* delivery, control goes to the handler with the message untouched;
\* complete_message is not called for that delivery; abandon_message is
\* called, and when it returns the message is back on the queue for
\* redelivery and the loop is at its next iteration, while when it raises
\* the message stays locked (never completed) and receive_messages is left
\* for main's backoff, the consumer not terminating. All this unless a
\* KeyboardInterrupt ends main in between.
C7_AbandonmentPath ==
    [][\A c \in Consumers : sigint'[c] \/
        /\ (cpc[c] = "parse" /\ LoadsRaises(Body(c)) /\ cpc'[c] # "parse") =>
              cdel'[c].fault = "json"
        /\ (cdel[c].fault = "none" /\ cdel'[c].fault \in ProcessingFaults) =>
              /\ cpc'[c] = "abandon"
              /\ queue' = queue /\ rows' = rows /\ cmsg' = cmsg
        /\ (cpc'[c] = "abandon" /\ cdel'[c].fault \in ProcessingFaults) =>
              /\ ~cdel'[c].completeCalled
              /\ queue'[cmsg'[c]].st = "locked"
        /\ (cpc[c] = "abandon" /\ cdel[c].fault \in ProcessingFaults
              /\ cpc'[c] # "abandon") =>
              \/ /\ cpc'[c] = "recv"
                 /\ queue'[cmsg[c]].st = "active"
                 /\ queue'[cmsg[c]].returned
              \/ /\ cpc'[c] = "backoff"
                 /\ queue'[cmsg[c]].st = "locked"
        /\ (cpc[c] = "backoff" /\ cpc'[c] # "backoff") => cpc'[c] = "connect"]_vars

\* C7 witness: a message that is not JSON was abandoned, waits for its
\* redelivery, and the consumer is back at the head of its receive loop.
C7_Witness ==
    \E i \in DOMAIN queue, c \in Consumers :
        /\ LoadsRaises(queue[i].body)
        /\ queue[i].st = "active" /\ queue[i].returned
        /\ cpc[c] = "recv"

\* C8 (as claimed). Whenever process_booking_message has succeeded for a
\* delivery, the consumer's acknowledgement removes the message from the
\* queue for good; and a message is acknowledged only after the UPDATE for
\* it was committed.
C8_SuccessAlwaysAcknowledged ==
    [][/\ \A c \in Consumers :
            (cpc[c] = "complete" /\ cpc'[c] # "complete" /\ ~sigint'[c]) =>
                queue'[cmsg[c]].st = "completed"
       /\ \A i \in DOMAIN queue :
            (queue[i].st # "completed" /\ queue'[i].st = "completed") =>
                \E c \in Consumers : cmsg[c] = i /\ cdel[c].committed]_vars

\* C8 (amended). Whenever process_booking_message has succeeded for a
\* delivery, complete_message is the next call made for it; when that call
\* returns, the message is removed from the queue and stays removed; when
\* it raises, the message is not removed and the abandon handler runs.  In
\* every execution a message becomes completed only in a delivery whose
\* UPDATE was committed before. The steps of the consumer are those it
\* takes unless a KeyboardInterrupt ends main.
C8_AckAfterCommit ==
    [][/\ \A c \in Consumers : sigint'[c] \/
            /\ (cpc[c] = "commit" /\ cdel'[c].committed) =>
                  /\ cpc'[c] = "complete"
                  /\ rows' = UpdateConfirmed(rows, Loads(Body(c)).booking_id)
            /\ cpc'[c] = "complete" => cdel'[c].committed
            /\ (cpc[c] = "complete" /\ cpc'[c] # "complete") =>
                  \/ /\ cpc'[c] = "recv"
                     /\ queue'[cmsg[c]].st = "completed"
                  \/ /\ cpc'[c] = "abandon"
                     /\ cdel'[c].fault = "complete"
                     /\ queue'[cmsg[c]].st = "locked"
       /\ \A i \in DOMAIN queue :
            /\ (queue[i].st # "completed" /\ queue'[i].st = "completed") =>
                  \E c \in Consumers :
                      cmsg[c] = i /\ cpc[c] = "complete" /\ cdel[c].committed
            /\ queue[i].st = "completed" =>
                  (i \in DOMAIN queue' /\ queue'[i].st = "completed")]_vars

\* C8 witness: a message of create_booking was acknowledged and removed.
C8_Witness ==
    \E i \in Published :
        /\ queue[i].st = "completed"
        /\ rows[BookingIdOf(i)].status = "confirmed"

\* C9. For every bookings table and every booking id, once
\* process_booking_message has returned n >= 1 times for that id the table
\* is what a single UPDATE of the initial table gives, and the row of that
\* id, when there is one, has status confirmed.
C9_UpdateIdempotent ==
    iapplied >= 1 =>
        /\ idb = UpdateConfirmed(idb0, iid)
        /\ iid \in DOMAIN idb => idb[iid].status = "confirmed"
        /\ DOMAIN idb = DOMAIN idb0

\* C9 witness: the update of a pending booking was applied three times.
C9_Witness ==
    /\ iapplied = 3
    /\ iid \in DOMAIN idb0
    /\ idb0[iid].status = "pending"
    /\ idb[iid].status = "confirmed"

\* the delivery consumer c holds names a booking_id that no row has
MissingRow(c) ==
    /\ cmsg[c] # 0
    /\ HasBookingId(Body(c))
    /\ Loads(Body(c)).booking_id \notin DOMAIN rows

\* C10 (as claimed). A delivery whose booking_id matches no row raises
\* nothing and is not abandoned.
C10_MissingRowNeverAbandoned ==
    \A c \in Consumers :
        MissingRow(c) => (cpc[c] # "abandon" /\ cdel[c].fault = "none")

\* C10 (amended). For a delivery whose booking_id matches no row: the
\* missing row raises nothing, so the delivery reaches the abandon handler
\* only when a database call or complete_message itself failed; the UPDATE
\* changes no row and creates none, on any path; and when the database
\* calls and complete_message return, the message is acknowledged (unless a
\* KeyboardInterrupt ends main in between).
C10_MissingRowAcknowledged ==
    [][\A c \in Consumers : sigint'[c] \/
        /\ (MissingRow(c)' /\ cpc'[c] = "abandon") =>
              cdel'[c].fault \in {"db", "complete"}
        /\ (MissingRow(c) /\ cpc'[c] # cpc[c]) => rows' = rows
        /\ (MissingRow(c) /\ cpc[c] = "execute" /\ cdel'[c].fault = "none"
              /\ cpc'[c] # "execute") =>
              cpc'[c] = "commit"
        /\ (MissingRow(c) /\ cpc[c] = "commit" /\ cdel'[c].fault = "none"
              /\ cpc'[c] # "commit") =>
              cpc'[c] = "complete"
        /\ (MissingRow(c) /\ cpc[c] = "complete" /\ cdel'[c].fault = "none"
              /\ cpc'[c] # "complete") =>
              /\ queue'[cmsg[c]].st = "completed"
              /\ cpc'[c] = "recv"]_vars

\* C10 witness: the message naming a row that does not exist was
\* acknowledged, and no row was created for it.
C10_Witness ==
    /\ ForeignKey \in DOMAIN queue
    /\ HasBookingId(queue[ForeignKey].body)
    /\ queue[ForeignKey].st = "completed"
    /\ BookingIdOf(ForeignKey) \notin DOMAIN rows

\* C11: a broker failure inside receive_messages (the client or the receiver
\* cannot be created, or iterating the receiver raises) never ends main: it
\* puts main in its handler, sleeping BackoffSeconds; the sleep over, main
\* calls receive_messages again, and only a KeyboardInterrupt keeps it from
\* doing so. Nothing counts the restarts.
C11_SupervisedRestart ==
    [][\A c \in Consumers :
        /\ (cpc[c] \in {"connect", "recv"} /\ ~sigint'[c])
              => cpc'[c] \in {"connect", "recv", "parse", "backoff"}
        /\ cpc'[c] = "backoff" => cwait'[c] = BackoffSeconds
        /\ (cpc[c] = "backoff" /\ cpc'[c] # "backoff")
              => (cpc'[c] = "connect" \/ sigint'[c])]_vars

\* the broker connection has failed while a message waits on the queue, and
\* main is in its backoff
C11_Witness ==
    \E c \in Consumers :
        /\ cpc[c] = "backoff"
        /\ cwait[c] = BackoffSeconds
        /\ \E i \in DOMAIN queue : queue[i].st = "active"
        /\ \A i \in DOMAIN queue : queue[i].st # "locked"


\* C12: main has left its while loop only if a KeyboardInterrupt was raised:
\* no failed message, failed complete_message or abandon_message, broker
\* failure or idle window ends it.
C12_ExitOnlyOnInterrupt ==
    \A c \in Consumers : cpc[c] \in Exited => sigint[c]

\* abandon_message has raised (its message is still locked, held by nobody),
\* main has slept and is calling receive_messages again
C12_Witness ==
    \E c \in Consumers :
        /\ cpc[c] = "connect"
        /\ ~sigint[c]
        /\ cmsg[c] = 0
        /\ \E i \in DOMAIN queue : queue[i].st = "locked"


\* C13: whenever the KeyboardInterrupt arrives (main blocked in the receive,
\* busy with a message, or asleep in its backoff), main ends through its
\* log-and-stop branch, never through an exception nothing caught.
C13_InterruptAlwaysCleanStop ==
    \A c \in Consumers : cpc[c] # "crashed"


\* what the caller can read off a response besides the id of the new row
ResponseShape(r) == [f \in DOMAIN r \ {"booking_id"} |-> r[f]]

\* C14: the response of create_booking depends on the persistence outcome
\* only. Two requests with the same JSON body whose rows were both committed
\* get the same status code and the same body (the new row's id apart),
\* whether the publish succeeded for one and failed for the other or not.
C14_PublishFailureUnobservable ==
    \A p, q \in Requests :
        (/\ pc[p] = "done" /\ pc[q] = "done"
         /\ data[p] = data[q]
         /\ bid[p] \in DOMAIN rows /\ bid[q] \in DOMAIN rows)
            => ResponseShape(resp[p]) = ResponseShape(resp[q])


\* positions of receive_messages in which msg is bound to a received message
InHand == {"parse", "process", "execute", "commit", "complete", "abandon"}

\* messages the broker has delivered and that were neither completed nor
\* given back
LockedMessages == {i \in DOMAIN queue : queue[i].st = "locked"}

\* C15 (as claimed). At most one message is in the received/processing state
\* at any time: when the consumer receives a message, every message it
\* received before has been acknowledged or abandoned.
C15_OneMessageReceived ==
    Cardinality(LockedMessages) <= 1

\* C15 (amended). A consumer has at most one message in hand, and that one
\* is locked; it receives a message only while it has none in hand, and it
\* lets go of a message only when complete_message has returned, when
\* abandon_message has returned or raised, or on a KeyboardInterrupt.
C15_OneMessageInHand ==
    [][\A c \in Consumers :
        /\ (cmsg[c] # 0) <=> (cpc[c] \in InHand)
        /\ cmsg[c] # 0 => queue[cmsg[c]].st = "locked"
        /\ (cmsg'[c] # cmsg[c] /\ cmsg'[c] # 0)
              => /\ cmsg[c] = 0 /\ cpc[c] = "recv"
                 /\ queue[cmsg'[c]].st = "active"
        /\ (cmsg'[c] # cmsg[c] /\ cmsg[c] # 0)
              => \/ cpc[c] = "complete" /\ queue'[cmsg[c]].st = "completed"
                 \/ cpc[c] = "abandon"
                 \/ sigint'[c]]_vars

\* the consumer is busy with one message after it has completed another and
\* a third one is still locked from a delivery whose abandon_message raised
C15_Witness ==
    \E c \in Consumers :
        /\ cmsg[c] # 0
        /\ \E j \in DOMAIN queue : queue[j].st = "completed"
        /\ \E j \in LockedMessages : j # cmsg[c]


\* the positions receive_messages can go to from each position a delivery
\* passes through
DeliverySteps ==
    [parse    |-> {"process", "abandon"},
     process  |-> {"execute", "abandon"},
     execute  |-> {"commit", "abandon"},
     commit   |-> {"complete", "abandon"},
     complete |-> {"recv", "abandon"},
     abandon  |-> {"recv", "backoff"}]

\* the step ends the delivery consumer c has in hand, without an interrupt
DeliveryEnds(c) == cmsg[c] # 0 /\ cmsg'[c] = 0 /\ ~sigint'[c]

\* C16 (as claimed). In the absence of an interrupt every delivery ends in
\* exactly one of acknowledged (the message is complete) or abandoned (the
\* message is back on the queue).
C16_EndsAcknowledgedOrAbandoned ==
    [][\A c \in Consumers :
        DeliveryEnds(c) =>
            \/ queue'[cmsg[c]].st = "completed"
            \/ queue'[cmsg[c]].st = "active" /\ queue'[cmsg[c]].returned]_vars

\* C16 (amended). A delivery goes received (parse) -> processing -> complete
\* or abandon, a failure at any step leading to abandon. Without an
\* interrupt it ends in exactly one of three ways: acknowledged, and then
\* every step including the commit succeeded; abandoned, and then a step
\* failed; or left locked because abandon_message raised after a step had
\* failed. An acknowledged message is never given back to the queue.
C16_DeliveryStateMachine ==
    [][\A c \in Consumers :
        /\ (cpc[c] \in DOMAIN DeliverySteps /\ cpc'[c] # cpc[c] /\ ~sigint'[c])
              => cpc'[c] \in DeliverySteps[cpc[c]]
        /\ DeliveryEnds(c) =>
              \/ /\ queue'[cmsg[c]].st = "completed"
                 /\ cpc[c] = "complete"
                 /\ cdel[c].fault = "none" /\ cdel[c].committed
              \/ /\ queue'[cmsg[c]].st = "active" /\ queue'[cmsg[c]].returned
                 /\ cpc[c] = "abandon" /\ cpc'[c] = "recv"
                 /\ cdel[c].fault # "none"
              \/ /\ queue'[cmsg[c]].st = "locked"
                 /\ cpc[c] = "abandon" /\ cpc'[c] = "backoff"
                 /\ cdel[c].fault # "none"
        /\ \A i \in DOMAIN queue :
              queue[i].st = "completed" => queue'[i].st = "completed"]_vars

\* one delivery has ended acknowledged, one abandoned, and one with a failed
\* abandon_message that has sent main into its backoff
C16_Witness ==
    \E c \in Consumers : \E i, j, k \in DOMAIN queue :
        /\ queue[i].st = "completed"
        /\ queue[j].st = "active" /\ queue[j].returned
        /\ queue[k].st = "locked" /\ cmsg[c] = 0 /\ cpc[c] = "backoff"


\* C17: a run of process_booking_message changes nothing in table bookings
\* but the status of the row the message's booking_id names: the rows are
\* the same rows, every other row is as it was, and the named row is as it
\* was apart from its status.
C17_OnlyStatusOfNamedRow ==
    [][/\ DOMAIN idb' = DOMAIN idb
       /\ \A i \in DOMAIN idb :
            /\ i # iid => idb'[i] = idb[i]
            /\ [idb'[i] EXCEPT !.status = idb[i].status] = idb[i]]_vars

\* the message's row was pending and is confirmed now, next to another row
\* that is still pending
C17_Witness ==
    /\ iapplied >= 1
    /\ iid \in DOMAIN idb
    /\ idb0[iid].status = "pending" /\ idb[iid].status = "confirmed"
    /\ \E j \in DOMAIN idb : j # iid /\ idb[j].status = "pending"


\* the fields a booking message and a bookings row have in common
SharedFields ==
    {"service_type", "vendor_id", "booking_date", "booking_time", "status"}

\* C19: a message create_booking has published carries the id of the row
\* that very request has committed, and its service type, vendor id, booking
\* date, booking time and status are those of the row.
C19_MessageMatchesRow ==
    \A i \in Published :
        /\ BookingIdOf(i) \in RowsBy(i)
        /\ \A f \in SharedFields :
              Loads(queue[i].body)[f] = rows[BookingIdOf(i)][f]

\* both requests have committed and published, the one that inserted first
\* having committed last
C19_Witness ==
    /\ Published = Requests
    /\ \E i, j \in Published : i < j /\ BookingIdOf(j) < BookingIdOf(i)


\* the broker has removed message i from the queue for good
Acknowledged(i) == i \in DOMAIN queue /\ queue[i].st = "completed"
DeadLettered(i) == i \in DOMAIN queue /\ queue[i].st = "deadletter"

\* C18: with the consumer running and the broker enforcing its maximum
\* delivery count, every message sent to the queue is eventually either
\* acknowledged or dead-lettered for having used up its deliveries.
C18_BoundedLifetime ==
    \A i \in Keys :
        (i \in DOMAIN queue) ~> (Acknowledged(i) \/ DeadLettered(i))

\* a message that cannot be parsed has used up its deliveries and is
\* dead-lettered, while the booking message was acknowledged
C18_Witness ==
    /\ DeadLettered(ForeignKey)
    /\ dc[ForeignKey] = MaxDeliveryCount
    /\ LoadsRaises(queue[ForeignKey].body)
    /\ \E i \in Published : Acknowledged(i)


\* the booking message i names is a committed row with status confirmed
BookingConfirmed(i) ==
    /\ BookingIdOf(i) \in DOMAIN rows
    /\ rows[BookingIdOf(i)].status = "confirmed"

\* C20 (as claimed). If create_booking has committed and published, and in
\* some delivery of the message the status update is committed (the ceiling
\* of deliveries not being exceeded by then), the booking is eventually
\* confirmed with its message acknowledged and removed from the queue.
C20_UpdateLeadsToAcknowledged ==
    \A p \in LifeRequests :
        <>(\E c \in Consumers : cmsg[c] = MsgOf(p) /\ cdel[c].committed)
            => <>(Acknowledged(MsgOf(p)) /\ BookingConfirmed(MsgOf(p)))

\* C20 (amended). A message create_booking has published (after its commit)
\* eventually is acknowledged, its booking being confirmed, or is
\* dead-lettered with all its MaxDeliveryCount deliveries used up.
C20_HandOffCompletes ==
    \A p \in LifeRequests :
        (MsgOf(p) \in Published)
            ~> \/ Acknowledged(MsgOf(p)) /\ BookingConfirmed(MsgOf(p))
               \/ DeadLettered(MsgOf(p)) /\ dc[MsgOf(p)] = MaxDeliveryCount

\* the booking is confirmed and its message acknowledged in the last delivery
\* the broker allows, an earlier delivery having failed
C20_Witness ==
    \E p \in LifeRequests :
        /\ MsgOf(p) \in Published
        /\ Acknowledged(MsgOf(p))
        /\ BookingConfirmed(MsgOf(p))
        /\ dc[MsgOf(p)] = MaxDeliveryCount


\* C21: with two consumers competing for the messages of two concurrent
\* requests, the broker handing a message to one consumer at a time, every
\* interleaving leaves the table as sequential processing does: every booking
\* whose message was acknowledged is confirmed, no row has any status but
\* confirmed, and no message is in the hands of two consumers.
C21_InterleavingsConfirm ==
    /\ \A i \in Published : Acknowledged(i) => BookingConfirmed(i)
    /\ \A r \in DOMAIN rows : rows[r].status = "confirmed"
    /\ \A c, d \in TwoConsumers :
          (c # d /\ cmsg[c] # 0) => cmsg[c] # cmsg[d]

\* the two consumers work on the messages of two bookings at once, one about
\* to commit its UPDATE, the other about to acknowledge
C21_Witness ==
    \E c, d \in TwoConsumers :
        /\ c # d
        /\ cmsg[c] \in Published /\ cmsg[d] \in Published
        /\ cpc[c] = "commit"
        /\ cpc[d] = "complete" /\ cdel[d].committed


\* C22: every row of bookings has status pending or confirmed, before and
\* after every step, and no step of create_booking or of the consumer
\* removes a row or takes a confirmed row back to another status.
C22_StatusMonotonic ==
    [][/\ \A i \in DOMAIN rows' : rows'[i].status \in {"pending", "confirmed"}
       /\ \A i \in DOMAIN rows :
            /\ rows[i].status \in {"pending", "confirmed"}
            /\ i \in DOMAIN rows'
            /\ rows[i].status = "confirmed" => rows'[i].status = "confirmed"]_vars

\* the consumer has committed its UPDATE on the row of a published booking,
\* next to the row of another request
C22_Witness ==
    \E c \in Consumers :
        /\ cmsg[c] \in Published
        /\ cpc[c] = "complete" /\ cdel[c].committed
        /\ rows[BookingIdOf(cmsg[c])].status = "confirmed"
        /\ Cardinality(DOMAIN rows) = MaxRequests


\* no message is waiting for delivery
NothingToDeliver == \A i \in DOMAIN queue : queue[i].st # "active"

\* C23: the consumer waits up to max_wait_time for a message. When
\* receive_messages returns from that wait, nothing was deliverable, main
\* neither sleeps nor ends but calls receive_messages again, which blocks in
\* the receive for max_wait_time again; so the wait is only ever left for a
\* message, the next call or a broker failure, and a message that becomes
\* deliverable during or after an idle window is eventually received.
C23_IdleWindow ==
    /\ [][\A c \in Consumers :
            /\ cpc[c] = "recv" =>
                  /\ cwait[c] = max_wait_time
                  /\ cpc'[c] \in {"recv", "parse", "connect", "backoff"}
            /\ (cpc[c] = "recv" /\ cpc'[c] = "connect") =>
                  /\ NothingToDeliver
                  /\ cwait'[c] = 0
                  /\ queue' = queue
            /\ (cpc[c] = "connect" /\ cpc'[c] # "connect") =>
                  cpc'[c] \in {"recv", "backoff"}]_vars
    /\ \A i \in Keys :
          (i \in DOMAIN queue /\ queue[i].st = "active"
             /\ dc[i] < MaxDeliveryCount)
            ~> (\E c \in Consumers : cmsg[c] = i)

\* the consumer sits in an idle window: it has acknowledged a message, waits
\* in the receive, and nothing is deliverable
C23_Witness ==
    \E c \in Consumers :
        /\ cpc[c] = "recv" /\ cwait[c] = max_wait_time
        /\ NothingToDeliver
        /\ \E i \in DOMAIN queue : Acknowledged(i)
        /\ ForeignKey \notin DOMAIN queue


\* consumer c is in the handler because complete_message raised after the
\* UPDATE of this delivery was committed
FailedAck(c) ==
    /\ cpc[c] = "abandon"
    /\ cdel[c].fault = "complete"
    /\ cdel[c].committed

\* C24 (as claimed). When complete_message fails after the commit, the
\* consumer abandons the message: it is back on the queue for redelivery.
C24_FailedAckAbandoned ==
    [][\A c \in Consumers :
        (FailedAck(c) /\ cpc'[c] # "abandon") =>
            queue'[cmsg[c]].st = "active"]_vars

\* C24 (amended). When complete_message fails after the commit, the message
\* is not completed and abandon_message is called; the message then is back
\* on the queue, or still locked when abandon_message raised, and it
\* eventually is acknowledged or dead-lettered, never lost otherwise. An
\* UPDATE committed for a row that is confirmed changes nothing, so the
\* booking stays confirmed throughout.
C24_FailedAckKeepsConfirmed ==
    /\ [][\A c \in Consumers :
            /\ (cpc[c] = "complete" /\ cpc'[c] # "complete") =>
                  \/ queue'[cmsg[c]].st = "completed"
                  \/ FailedAck(c)' /\ queue' = queue /\ rows' = rows
            /\ (FailedAck(c) /\ cpc'[c] # "abandon") =>
                  /\ rows' = rows
                  /\ \/ /\ queue'[cmsg[c]].st = "active"
                        /\ queue'[cmsg[c]].returned
                        /\ cpc'[c] = "recv"
                     \/ /\ queue'[cmsg[c]].st = "locked"
                        /\ cpc'[c] = "backoff"
            /\ (cpc[c] = "commit" /\ cdel'[c].committed
                  /\ BookingConfirmed(cmsg[c])) => rows' = rows]_vars
    /\ \A i \in Keys :
          (\E c \in Consumers : FailedAck(c) /\ cmsg[c] = i)
            ~> (Acknowledged(i) \/ DeadLettered(i))

\* complete_message has failed for a booking message whose UPDATE was
\* committed in this delivery, the last one the broker allows
C24_Witness ==
    \E c \in Consumers :
        /\ FailedAck(c)
        /\ cmsg[c] \in Published
        /\ BookingConfirmed(cmsg[c])
        /\ dc[cmsg[c]] = MaxDeliveryCount


\* a body process_booking_message cannot work on: no JSON, JSON that is no
\* object, or an object without booking_id
BadContent(body) == LoadsRaises(body) \/ ~IsDict(body) \/ ~HasBookingId(body)

\* consumer c has a message of such content in hand
HoldsBadContent(c) == cmsg[c] # 0 /\ BadContent(Body(c))

\* C25 (as claimed). A message of bad content is abandoned, back on the
\* queue when its delivery ends, and its delivery changes no row.
C25_BadContentAbandoned ==
    [][\A c \in Consumers :
        (HoldsBadContent(c) /\ cpc'[c] # cpc[c]) =>
            /\ rows' = rows
            /\ cmsg'[c] = 0 => queue'[cmsg[c]].st = "active"]_vars

\* C25 (amended). A delivery of a message of bad content changes no row and
\* never comes to the commit of an UPDATE or to complete_message; it ends in
\* the handler, where abandon_message puts the message back on the queue or,
\* raising, leaves it locked; the message is never acknowledged.
C25_BadContentLeavesRows ==
    [][/\ \A c \in Consumers :
            (HoldsBadContent(c) /\ cpc'[c] # cpc[c]) =>
                /\ rows' = rows
                /\ cpc'[c] \notin {"commit", "complete"}
                /\ cmsg'[c] = 0 =>
                      /\ cpc[c] = "abandon"
                      /\ \/ /\ queue'[cmsg[c]].st = "active"
                            /\ queue'[cmsg[c]].returned
                         \/ /\ queue'[cmsg[c]].st = "locked"
                            /\ cpc'[c] = "backoff"
       /\ \A i \in DOMAIN queue' :
            BadContent(queue'[i].body) => queue'[i].st # "completed"]_vars

\* a JSON object without booking_id has been abandoned and waits on the
\* queue, next to the row of a booking
C25_Witness ==
    /\ ForeignKey \in DOMAIN queue
    /\ IsDict(queue[ForeignKey].body)
    /\ ~HasBookingId(queue[ForeignKey].body)
    /\ queue[ForeignKey].st = "active" /\ queue[ForeignKey].returned
    /\ rows # <<>>


\* request p has been read and its body lacks a required field
MissingField(p) ==
    /\ pc[p] # "idle"
    /\ ~(RequiredFields \subseteq DOMAIN data[p])

\* request p has had no effect on the table or the queue
NoHandOff(p) ==
    /\ RowsBy(p) = {}
    /\ txn[p] = NoTxn /\ bid[p] = 0
    /\ sends[p] = 0
    /\ MsgOf(p) \notin DOMAIN queue

\* C26 (as claimed). A request that lacks a required field is answered 400
\* without ever reaching a database call; it creates no row and publishes no
\* message.
C26_MissingFieldIs400 ==
    \A p \in Requests :
        MissingField(p) =>
            /\ pc[p] = "done"
            /\ resp[p].code = 400
            /\ NoHandOff(p)

\* ------------------------------------------------------------ C27
\* process_booking_message is running between get_db_connection() and its
\* return or raise
InProcessBookingMessage(c) == cpc[c] \in {"execute", "commit"}

\* C27 (as claimed). Every connection opened by a hand-off operation is closed
\* by the time the operation finishes: create_booking has answered with no
\* connection of its own left open, and a consumer that is not inside
\* process_booking_message holds no open connection of it, whether the call
\* returned or raised.
C27_ConnectionsClosed ==
    /\ \A p \in Requests : pc[p] = "done" => ~pconn[p]
    /\ \A c \in Consumers :
           ~InProcessBookingMessage(c) => ~cdel[c].connOpen

====
